---- MODULE Spec2Model ----
(***************************************************************************)
(* A model of src/src/main.rs: a benchmark loop that computes the dot      *)
(* product of two f32 vectors on a Metal compute device (gpu_dot) and on   *)
(* the host (cpu_dot) and asserts that the two results are equal.          *)
(*                                                                         *)
(* The host thread is modelled statement by statement (pc); the device is  *)
(* a second process that retires committed command buffers.                *)
(*                                                                         *)
(* An f32 is a record [s, m, e] standing for (-1)^s * m * 2^e with a       *)
(* 24-bit significand m; products and sums are rounded to nearest, ties to *)
(* even, as the hardware rounds them.  A vector is a sequence of runs      *)
(* [v, n]: n consecutive elements of value v.  The loop of main works on   *)
(* vectors of the program's own length, 1_000_000_000; gpu_dot and cpu_dot *)
(* are also modelled as called on their own, with slices of other lengths  *)
(* (SpecCall), and gpu_run with any usize length (SpecRun).  Lengths that  *)
(* pass through f64 (gpu_run) are little-endian bit sequences, so that the *)
(* 53-bit significand of f64 is modelled at its real width.                *)
(***************************************************************************)
EXTENDS Integers, Sequences, FiniteSets, TLC

\* ------------------------------------------------------------------------
\* Bounds of the model
\* ------------------------------------------------------------------------
\* gpu_dot called on its own: the slice lengths 1..MaxSmall and the lengths
\* around the threadgroup size, 63..MaxLen.
MaxSmall == 2
MaxLen == 65
\* Largest stride of the slice patterns gpu_dot is called with on its own.
MaxStride == 1
\* Number of loop iterations of main explored (the loop itself is unbounded).
MaxIter == 2
\* Number of distinct random words the sampler of main draws from.
MaxWord == 2
\* gpu_run called on its own: the small lengths 1..MaxRunLen ...
MaxRunLen == 130
\* ... and the large lengths 2^e + d, d in 0..MaxOff.
MaxOff == 65

\* ------------------------------------------------------------------------
\* Program constants
\* ------------------------------------------------------------------------
\* let size = 1_000_000_000;
size == 1000000000
\* let threads_per_threadgroup: u64 = 64;
ThreadsPerThreadgroup == 64
\* Significand width of f64 (`len as f64`).
F64Bits == 53
\* Width of usize / u64 on the 64-bit targets Metal runs on.
UsizeBits == 64
\* Significand width of f32 (the element type of a, b and of the buffers).
F32Bits == 24
\* Random bits of a gen_range draw of an f32: the sampler keeps the top 23
\* bits of a 32-bit word as the fraction of a float in [1, 2).
WordBits == 23

\* ------------------------------------------------------------------------
\* Unsigned integers as little-endian bit sequences (no high zero bits)
\* ------------------------------------------------------------------------
RECURSIVE Nat2Bits(_)
Nat2Bits(n) == IF n = 0 THEN <<>> ELSE <<n % 2>> \o Nat2Bits(n \div 2)

RECURSIVE Bits2Nat(_)
Bits2Nat(x) == IF x = <<>> THEN 0 ELSE Head(x) + 2 * Bits2Nat(Tail(x))

RECURSIVE Norm(_)
Norm(x) ==
    IF x = <<>> \/ x[Len(x)] = 1 THEN x ELSE Norm(SubSeq(x, 1, Len(x) - 1))

ShiftRight(x, k) == SubSeq(x, k + 1, Len(x))

ShiftLeft(x, k) == IF x = <<>> THEN <<>> ELSE [i \in 1..k |-> 0] \o x

LowBits(x, k) == Norm(SubSeq(x, 1, IF Len(x) < k THEN Len(x) ELSE k))

RECURSIVE Inc(_)
Inc(x) ==
    IF x = <<>> THEN <<1>>
    ELSE IF Head(x) = 0 THEN <<1>> \o Tail(x)
    ELSE <<0>> \o Inc(Tail(x))

RECURSIVE DecRaw(_)
DecRaw(x) ==
    IF Head(x) = 1 THEN <<0>> \o Tail(x) ELSE <<1>> \o DecRaw(Tail(x))

Dec(x) == Norm(DecRaw(x))

RECURSIVE LessSameLen(_, _)
LessSameLen(x, y) ==
    IF x = <<>> THEN FALSE
    ELSE IF x[Len(x)] # y[Len(y)] THEN x[Len(x)] < y[Len(y)]
    ELSE LessSameLen(SubSeq(x, 1, Len(x) - 1), SubSeq(y, 1, Len(y) - 1))

Less(x, y) == IF Len(x) # Len(y) THEN Len(x) < Len(y) ELSE LessSameLen(x, y)

LessEq(x, y) == x = y \/ Less(x, y)

\* x - y for x >= y, bit by bit with a borrow.
RECURSIVE SubRaw(_, _, _)
SubRaw(x, y, borrow) ==
    IF x = <<>> THEN <<>>
    ELSE LET yb == IF y = <<>> THEN 0 ELSE Head(y)
             d  == Head(x) - yb - borrow
         IN <<d % 2>> \o SubRaw(Tail(x), IF y = <<>> THEN <<>> ELSE Tail(y),
                                IF d < 0 THEN 1 ELSE 0)

\* The (small) signed difference x - y as an integer.
Diff(x, y) ==
    IF Less(x, y) THEN 0 - Bits2Nat(Norm(SubRaw(y, x, 0)))
    ELSE Bits2Nat(Norm(SubRaw(x, y, 0)))

\* 2^e + d, for d < 2^e.
Pow2Plus(e, d) ==
    LET lo == Nat2Bits(d) IN lo \o [i \in 1..(e - Len(lo)) |-> 0] \o <<1>>

\* 2^e - d, for d <= 2^e.
Pow2Minus(e, d) == Norm(SubRaw(Pow2Plus(e, 0), Nat2Bits(d), 0))

\* ------------------------------------------------------------------------
\* Pure functions of main.rs
\* ------------------------------------------------------------------------
\* `len as f64`: usize to f64 rounds to the nearest value with a 53-bit
\* significand, ties to the even significand.  The result is integral and is
\* returned as an integer.
AsF64(x) ==
    IF Len(x) <= F64Bits THEN x
    ELSE LET s      == Len(x) - F64Bits
             keep   == ShiftRight(x, s)
             guard  == x[s]
             sticky == \E i \in 1..(s - 1) : x[i] = 1
             up     == guard = 1 /\ (sticky \/ keep[1] = 1)
         IN ShiftLeft(IF up THEN Inc(keep) ELSE keep, s)

RECURSIVE Log2(_)
Log2(n) == IF n <= 1 THEN 0 ELSE 1 + Log2(n \div 2)

\* `x / threads_per_threadgroup as f64`: the divisor is a power of two, so the
\* f64 quotient is exact; it is returned as its whole part and the numerator
\* of its fractional part (over 64).
F64Div(x, d) ==
    [whole |-> ShiftRight(x, Log2(d)), part |-> LowBits(x, Log2(d))]

\* f64::ceil
F64Ceil(q) == IF q.part = <<>> THEN q.whole ELSE Inc(q.whole)

\* A mutant of Threadgroups: the quotient truncated instead of rounded up.
ThreadgroupsTruncated(len) ==
    F64Div(AsF64(len), ThreadsPerThreadgroup).whole

\* let threadgroups = (len as f64 / threads_per_threadgroup as f64).ceil() as u64;
\* (the f64 is below 2^64, so `as u64` keeps its value)
Threadgroups(len) == F64Ceil(F64Div(AsF64(len), ThreadsPerThreadgroup))

\* size_1d(width): a one-dimensional MTLSize.
size_1d(width) == [width |-> width, height |-> 1, depth |-> 1]

\* Number of invocations of a dispatch of `groups` groups of `threads`.
GridSize(groups, threads) ==
    (groups.width * groups.height * groups.depth)
        * (threads.width * threads.height * threads.depth)


\* ------------------------------------------------------------------------
\* f32 arithmetic
\* ------------------------------------------------------------------------
\* An f32 is [s, m, e]: (-1)^s * m * 2^e, with 2^23 <= m < 2^24, or m = 0
\* (e = 0) for the zero of sign s.  The values of the program are far from
\* the ends of the exponent range of f32 (products of elements are at least
\* 2^-46 in magnitude, sums at most 10^9), so e is not bounded here and the
\* model has no subnormal, infinity or NaN.
F32Zero == [s |-> 0, m |-> 0, e |-> 0]

F32NegZero == [s |-> 1, m |-> 0, e |-> 0]

F32One == [s |-> 0, m |-> 2^(F32Bits - 1), e |-> 1 - F32Bits]

F32MinusOne == [s |-> 1, m |-> 2^(F32Bits - 1), e |-> 1 - F32Bits]

Min(x, y) == IF x <= y THEN x ELSE y

Max(x, y) == IF x >= y THEN x ELSE y

\* Rounding of the magnitude S * 2^E, where S has 27 bits: a 24-bit
\* significand, a guard bit, a round bit and a sticky bit.  To nearest, ties
\* to the even significand.
F32Round(s, S, E) ==
    LET m  == S \div 8
        r  == S % 8
        up == r > 4 \/ (r = 4 /\ m % 2 = 1)
        m2 == IF up THEN m + 1 ELSE m
    IN IF m2 = 2^F32Bits THEN [s |-> s, m |-> 2^(F32Bits - 1), e |-> E + 4]
       ELSE [s |-> s, m |-> m2, e |-> E + 3]

\* S shifted right by one bit, the bit shifted out kept as sticky.
StickyHalf(S) ==
    LET h == S \div 2 IN IF S % 2 = 1 /\ h % 2 = 0 THEN h + 1 ELSE h

\* S * 2^E with S shifted left until it has 27 bits.
RECURSIVE NormLeft(_, _)
NormLeft(S, E) ==
    IF S >= 2^(F32Bits + 2) THEN [S |-> S, E |-> E]
    ELSE NormLeft(S * 2, E - 1)

\* x + y in f32.  The operand of smaller magnitude is aligned to the larger
\* one with three extra bits, the bits shifted out kept as sticky.
F32Add(x, y) ==
    IF x.m = 0 /\ y.m = 0
      THEN [s |-> IF x.s = 1 /\ y.s = 1 THEN 1 ELSE 0, m |-> 0, e |-> 0]
    ELSE IF x.m = 0 THEN y
    ELSE IF y.m = 0 THEN x
    ELSE LET xbig  == x.e > y.e \/ (x.e = y.e /\ x.m >= y.m)
             big   == IF xbig THEN x ELSE y
             small == IF xbig THEN y ELSE x
             d     == big.e - small.e
             X     == big.m * 8
             Y     == IF d > F32Bits + 3 THEN 1
                      ELSE LET q  == (small.m * 8) \div 2^d
                               st == (small.m * 8) % 2^d # 0
                           IN IF st /\ q % 2 = 0 THEN q + 1 ELSE q
             E     == big.e - 3
         IN IF big.s = small.s
              THEN IF X + Y >= 2^(F32Bits + 3)
                     THEN F32Round(big.s, StickyHalf(X + Y), E + 1)
                     ELSE F32Round(big.s, X + Y, E)
            ELSE IF X = Y THEN F32Zero
            ELSE LET n == NormLeft(X - Y, E) IN F32Round(big.s, n.S, n.E)

\* x * y in f32.  The 48-bit product of the significands is built from
\* 12-bit halves as hi * 2^24 + lo.
F32Mul(x, y) ==
    LET s == (x.s + y.s) % 2
    IN IF x.m = 0 \/ y.m = 0 THEN [s |-> s, m |-> 0, e |-> 0]
       ELSE LET half == 2^(F32Bits \div 2)
                ah == x.m \div half
                al == x.m % half
                bh == y.m \div half
                bl == y.m % half
                t1 == ah * bl + al * bh
                l  == (t1 % half) * half + al * bl
                lo == l % 2^F32Bits
                hi == ah * bh + t1 \div half + l \div 2^F32Bits
                e  == x.e + y.e
                wide == hi >= 2^(F32Bits - 1)
                m  == IF wide THEN hi ELSE hi * 2 + lo \div 2^(F32Bits - 1)
                r  == IF wide THEN lo ELSE (lo % 2^(F32Bits - 1)) * 2
                up == r > 2^(F32Bits - 1) \/ (r = 2^(F32Bits - 1) /\ m % 2 = 1)
                m2 == IF up THEN m + 1 ELSE m
                ee == IF wide THEN e + F32Bits ELSE e + F32Bits - 1
            IN IF m2 = 2^F32Bits
                 THEN [s |-> s, m |-> 2^(F32Bits - 1), e |-> ee + 1]
                 ELSE [s |-> s, m |-> m2, e |-> ee]

\* x == y on f32: the two zeros are equal.
F32Eq(x, y) == x = y \/ (x.m = 0 /\ y.m = 0)

\* The integer w, 0 <= w < 2^24, as an f32 scaled by 2^e.
RECURSIVE F32Of(_, _)
F32Of(w, e) ==
    IF w = 0 THEN F32Zero
    ELSE IF w >= 2^(F32Bits - 1) THEN [s |-> 0, m |-> w, e |-> e]
    ELSE F32Of(w * 2, e - 1)

\* The element of a one-element set.  {F(x) : x \in {e}} evaluates e once
\* and F on its value.
The(S) == CHOOSE x \in S : TRUE

\* The block of additions that starts with acc0 + v = a1 and a1 + v = a2,
\* with n additions to do, n >= 2.
FoldBlock(acc0, a1, a2, n) ==
    LET q      == a2.m - a1.m
        steady == /\ n >= 3
                  /\ acc0.m # 0 /\ a1.m # 0 /\ a2.m # 0
                  /\ acc0.s = a1.s /\ a1.s = a2.s
                  /\ acc0.e = a1.e /\ a1.e = a2.e
                  /\ q = a1.m - acc0.m
                  /\ q # 0
        room   == IF q > 0 THEN (2^F32Bits - 1 - a2.m) \div q
                  ELSE Max(0, a2.m - 2^(F32Bits - 1) - 1) \div (0 - q)
        k      == Min(room, n - 2)
    IN IF steady THEN [acc |-> [a2 EXCEPT !.m = @ + k * q], n |-> n - 2 - k]
       ELSE [acc |-> a2, n |-> n - 2]

\* One block of the additions acc + v + v + ... + v (n additions of the same
\* addend, each rounded): the block leaves [acc, n], the sum so far and the
\* number of additions still to do.  Adding on when an addition leaves acc
\* unchanged changes nothing.  While acc keeps its sign and exponent, the
\* exact sum acc + v lies at a fixed offset from acc on the grid of that
\* exponent, so it rounds to a fixed number q of grid steps from acc (a tie
\* rounds to the even significand, and acc stays even from then on): once two
\* additions in a row have moved acc by the same q without leaving the
\* exponent, the next k do as well, for every k that keeps the significand
\* strictly inside the exponent's range.
FoldStep(st, v) ==
    IF st.n = 0 THEN st
    ELSE The({IF a1 = st.acc THEN [acc |-> st.acc, n |-> 0]
              ELSE IF st.n = 1 THEN [acc |-> a1, n |-> 0]
              ELSE The({FoldBlock(st.acc, a1, a2, st.n) :
                           a2 \in {F32Add(a1, v)}}) :
                 a1 \in {F32Add(st.acc, v)}})

\* Up to 2^d blocks, one after the other.
RECURSIVE FoldSteps(_, _, _)
FoldSteps(st, v, d) ==
    IF st.n = 0 THEN st
    ELSE IF d = 0 THEN FoldStep(st, v)
    ELSE The({FoldSteps(mid, v, d - 1) : mid \in {FoldSteps(st, v, d - 1)}})

\* acc + v + v + ... + v, n additions in f32: blocks until none is left.
RECURSIVE FoldRun(_, _, _)
FoldRun(acc, v, n) ==
    The({IF st.n = 0 THEN st.acc ELSE FoldRun(st.acc, v, st.n) :
            st \in {FoldSteps([acc |-> acc, n |-> n], v, 5)}})

\* ------------------------------------------------------------------------
\* Vectors of f32 as sequences of runs
\* ------------------------------------------------------------------------
\* n consecutive elements of value v.
Run(v, n) == [v |-> v, n |-> n]

\* The number of elements of the runs x[lo..hi].
RECURSIVE RunsLen(_, _, _)
RunsLen(x, lo, hi) ==
    IF lo > hi THEN 0
    ELSE IF lo = hi THEN x[lo].n
    ELSE RunsLen(x, lo, (lo + hi) \div 2)
             + RunsLen(x, (lo + hi) \div 2 + 1, hi)

\* a.len()
VLen(x) == RunsLen(x, 1, Len(x))

\* The first k elements of x.
RECURSIVE VTake(_, _)
VTake(x, k) ==
    IF k <= 0 \/ x = <<>> THEN <<>>
    ELSE IF x[1].n >= k THEN <<Run(x[1].v, k)>>
    ELSE <<x[1]>> \o VTake(Tail(x), k - x[1].n)

\* x without its first k elements.
RECURSIVE VDrop(_, _)
VDrop(x, k) ==
    IF k <= 0 \/ x = <<>> THEN x
    ELSE IF x[1].n > k THEN <<Run(x[1].v, x[1].n - k)>> \o Tail(x)
    ELSE VDrop(Tail(x), k - x[1].n)

\* The elements of the runs x[lo..hi], each with the element of y at the same
\* index: [x, y, n] for n consecutive indices on which both are constant.
RECURSIVE ZipRuns(_, _, _, _)
ZipRuns(x, y, lo, hi) ==
    IF lo > hi THEN <<>>
    ELSE IF lo = hi
      THEN The({[i \in 1..Len(ys) |->
                    [x |-> x[lo].v, y |-> ys[i].v, n |-> ys[i].n]] :
                   ys \in {VTake(VDrop(y, RunsLen(x, 1, lo - 1)), x[lo].n)}})
    ELSE ZipRuns(x, y, lo, (lo + hi) \div 2)
             \o ZipRuns(x, y, (lo + hi) \div 2 + 1, hi)

\* The index ranges on which both x and y are constant, in index order, with
\* the two values.
Zip(x, y) == The({ZipRuns(vx, vy, 1, Len(vx)) : vx \in {x}, vy \in {y}})

\* ------------------------------------------------------------------------
\* cpu_dot, gpu_result
\* ------------------------------------------------------------------------
\* for i in 0..a.len() { result += a[i] * b[i]; }
\* on the index ranges segs[lo..hi] of the two slices, in index order: the
\* ranges of the first half, then those of the second half, from the sum the
\* first half leaves.
RECURSIVE CpuDotLoop(_, _, _, _)
CpuDotLoop(segs, lo, hi, acc) ==
    IF lo > hi THEN acc
    ELSE IF lo = hi
      THEN The({FoldRun(acc, p, segs[lo].n) :
                   p \in {F32Mul(segs[lo].x, segs[lo].y)}})
    ELSE The({CpuDotLoop(segs, (lo + hi) \div 2 + 1, hi, sum) :
                 sum \in {CpuDotLoop(segs, lo, (lo + hi) \div 2, acc)}})

\* cpu_dot: let mut result = 0.0; the loop; result
\* (called with slices of equal length)
cpu_dot(va, vb) ==
    The({CpuDotLoop(segs, 1, Len(segs), F32Zero) : segs \in {Zip(va, vb)}})

\* Iterator::sum over f32: the elements of the runs x[lo..hi] added in order
\* onto acc: those of the first half, then those of the second half.
RECURSIVE SumRuns(_, _, _, _)
SumRuns(x, lo, hi, acc) ==
    IF lo > hi THEN acc
    ELSE IF lo = hi THEN FoldRun(acc, x[lo].v, x[lo].n)
    ELSE The({SumRuns(x, (lo + hi) \div 2 + 1, hi, sum) :
                 sum \in {SumRuns(x, lo, (lo + hi) \div 2, acc)}})

\* gpu_result: slice::from_raw_parts(contents, len).iter().sum()
\* (the sum starts from -0.0; from 0.0 before Rust 1.83, which differs in the
\* sign of a zero sum only)
gpu_result(data, len) ==
    The({SumRuns(x, 1, Len(x), F32NegZero) : x \in {VTake(data, len)}})

\* ------------------------------------------------------------------------
\* The kernel `dot_product` (shader.metal, included at src/src/main.rs:116)
\* ------------------------------------------------------------------------
\* The kernel has no bounds check: the host binds three buffers and no
\* length, so invocation gid reads a[gid], b[gid] and writes out[gid],
\* whatever gid is.  The indices a dispatch of `grid` invocations accesses
\* past the end of buffers of n elements:
KernelStray(grid, n) == {gid \in n..(grid - 1) : TRUE}

\* The output buffer after the kernel ran: out[gid] = a[gid] * b[gid] for the
\* accessed indices that lie inside the buffers.
KernelOut(da, db, dout, grid) ==
    The({[i \in 1..Len(segs) |->
             Run(F32Mul(segs[i].x, segs[i].y), segs[i].n)] \o VDrop(dout, w) :
            w \in {Min(grid, VLen(dout))},
            segs \in {Zip(VTake(da, Min(grid, VLen(dout))),
                          VTake(db, Min(grid, VLen(dout))))}})

\* ------------------------------------------------------------------------
\* State
\* ------------------------------------------------------------------------
VARIABLES
    pc,          \* the host thread's position in main / gpu_setup / gpu_dot
    aborted_in,  \* the function a panic was raised in ("" while running)
    env,         \* what the platform answers during gpu_setup
    gpu,         \* the GPU struct: dev, cmds, state
    a, b,        \* the host vectors gpu_dot and cpu_dot are called with
    iter,        \* loop iterations (calls of gpu_dot) started
    printed,     \* loop iterations whose lines were printed
    cbs,         \* the command buffers created so far, by id
    bufs,        \* the live device buffers, by id
    next_buf,    \* the id of the next device buffer
    buf_result,  \* the output buffer handle gpu_dot holds (0: none)
    result,      \* main's `result`, <<>> until assigned
    cpu_result,  \* main's `cpu_result`, <<>> until assigned
    oob,         \* out-of-bounds indices the last dispatch accessed
    run_len,     \* gpu_run called on its own: its `len` argument
    run_groups   \* ... and the threadgroups it dispatched, <<>> before the call

vars == <<pc, aborted_in, env, gpu, a, b, iter, printed, cbs, bufs,
          next_buf, buf_result, result, cpu_result, oob, run_len, run_groups>>

host == <<a, b, iter, printed, result, cpu_result>>
device == <<cbs, bufs, next_buf, buf_result, oob>>
fixed == <<env, run_len, run_groups>>

\* rand::thread_rng().gen_range(-1.0..=1.0) for f32 (rand 0.8): a random
\* 32-bit word is cut to its top 23 bits w, which make the float
\* value0_1 = w / 2^23 in [0, 1); the draw is value0_1 * scale + low, a
\* product and a sum in f32, with low = -1.0 and scale = 2 + 2^-22, the f32
\* nearest to (high - low) / (1 - 2^-23).
Sample(w) ==
    F32Add(F32Mul(F32Of(w, 0 - WordBits),
                  [s |-> 0, m |-> 2^(F32Bits - 1) + 1, e |-> 2 - F32Bits]),
           F32MinusOne)

\* The random words the model draws from, of the 2^23 there are.
Words == {(k * 5984177) % 2^WordBits : k \in 1..MaxWord}

\* The vectors one collect() of main builds, n draws each: of all the
\* sequences of n words, those that draw one word n times, or one word n/2
\* times and then another n - n/2 times.
Collected(n) ==
    {<<Run(Sample(w), n)>> : w \in Words}
    \cup UNION {{<<Run(Sample(w1), n \div 2), Run(Sample(w2), n - n \div 2)>> :
                     w2 \in Words \ {w1}} : w1 \in Words}

Envs == [device : BOOLEAN, library : BOOLEAN, function : BOOLEAN,
         pipeline : BOOLEAN]

NoGpu == [dev |-> FALSE, cmds |-> FALSE, state |-> FALSE]

Init ==
    /\ pc = "system_default"
    /\ aborted_in = ""
    /\ env \in Envs
    /\ gpu = NoGpu
    /\ a = <<>>
    /\ b = <<>>
    /\ iter = 0
    /\ printed = 0
    /\ cbs = <<>>
    /\ bufs = <<>>
    /\ next_buf = 1
    /\ buf_result = 0
    /\ result = <<>>
    /\ cpu_result = <<>>
    /\ oob = {}
    /\ run_len = <<>>
    /\ run_groups = <<>>

\* A panic: the process stops in function `where`.
Panic(where) ==
    /\ pc' = "aborted"
    /\ aborted_in' = where

\* A mutant of Unwrapped: the error is ignored and the program goes on.
UnwrapIgnored(ok) == TRUE

\* Option::expect / Result::unwrap: goes on with the value iff there is one.
Unwrapped(ok) == ok

\* ------------------------------------------------------------------------
\* gpu_setup
\* ------------------------------------------------------------------------
\* let dev = Arc::new(Device::system_default().expect("Apple Metal GPU"));
SystemDefault ==
    /\ pc = "system_default"
    /\ IF Unwrapped(env.device)
         THEN /\ gpu' = [gpu EXCEPT !.dev = TRUE]
              /\ pc' = "new_command_queue"
              /\ UNCHANGED aborted_in
         ELSE /\ Panic("gpu_setup")
              /\ UNCHANGED gpu
    /\ UNCHANGED <<host, device, fixed>>

\* let cmds = Arc::new(dev.new_command_queue());
NewCommandQueue ==
    /\ pc = "new_command_queue"
    /\ gpu' = [gpu EXCEPT !.cmds = TRUE]
    /\ pc' = "new_library"
    /\ UNCHANGED <<aborted_in, host, device, fixed>>

\* gpu_fn: device.new_library_with_source(source, options).unwrap()
NewLibrary ==
    /\ pc = "new_library"
    /\ IF Unwrapped(env.library)
         THEN /\ pc' = "get_function"
              /\ UNCHANGED aborted_in
         ELSE Panic("gpu_fn")
    /\ UNCHANGED <<gpu, host, device, fixed>>

\* gpu_fn: library.get_function(&fn_name, None), unwrapped in gpu_state
GetFunction ==
    /\ pc = "get_function"
    /\ IF Unwrapped(env.function)
         THEN /\ pc' = "new_pipeline_state"
              /\ UNCHANGED aborted_in
         ELSE Panic("gpu_state")
    /\ UNCHANGED <<gpu, host, device, fixed>>

\* gpu_state: device.new_compute_pipeline_state(&pipeline_desc), unwrapped in
\* gpu_setup, which then returns GPU { dev, cmds, state } to main.
NewPipelineState ==
    /\ pc = "new_pipeline_state"
    /\ IF Unwrapped(env.pipeline)
         THEN /\ gpu' = [gpu EXCEPT !.state = TRUE]
              /\ pc' = "generate"
              /\ UNCHANGED aborted_in
         ELSE /\ Panic("gpu_setup")
              /\ UNCHANGED gpu
    /\ UNCHANGED <<host, device, fixed>>

\* ------------------------------------------------------------------------
\* main's loop, gpu_dot, gpu_mem, gpu_run
\* ------------------------------------------------------------------------
\* let a: Vec<f32> = (0..size).map(|_| ...gen_range(-1.0..=1.0)).collect();
\* let b: Vec<f32> = ...;   (a new iteration starts)
Generate ==
    /\ pc = "generate"
    /\ iter < MaxIter
    /\ a' \in Collected(size)
    /\ b' \in Collected(size)
    /\ iter' = iter + 1
    /\ pc' = "new_command_buffer"
    /\ UNCHANGED <<aborted_in, gpu, printed, result, cpu_result, device,
                   fixed>>

\* The command buffer gpu_dot is working on: the one created last.
Cur == Len(cbs)

\* let command_buffer = gpu.cmds.new_command_buffer();
NewCommandBuffer ==
    /\ pc = "new_command_buffer"
    /\ cbs' = Append(cbs, [status |-> "created", encoder |-> "none",
                           cmds |-> <<>>])
    /\ pc' = "new_encoder"
    /\ UNCHANGED <<aborted_in, gpu, host, bufs, next_buf, buf_result, oob,
                   fixed>>

\* let encoder = command_buffer.new_compute_command_encoder();
NewEncoder ==
    /\ pc = "new_encoder"
    /\ cbs' = [cbs EXCEPT ![Cur].encoder = "open"]
    /\ pc' = "alloc_result"
    /\ UNCHANGED <<aborted_in, gpu, host, bufs, next_buf, buf_result, oob,
                   fixed>>

\* gpu_buf: dev.new_buffer_with_data(ptr, len * size_of::<f32>(), Shared):
\* a new buffer holding a copy of `data`; `held` says that the host holds its
\* handle, `retained` names the command buffer that references it (0: none).
gpu_buf(data, held, retained) ==
    [data |-> data, held |-> held, retained |-> retained, born |-> iter]

\* Recording a command into the open encoder of the current command buffer.
Encode(cmd) == [cbs EXCEPT ![Cur].cmds = Append(@, cmd)]

\* gpu_mem: let buf_result = gpu_buf(&dev, &vec![0.0; a.len()]);
AllocResult ==
    /\ pc = "alloc_result"
    /\ bufs' = bufs @@ (next_buf :> gpu_buf(<<Run(F32Zero, VLen(a))>>, TRUE, 0))
    /\ buf_result' = next_buf
    /\ next_buf' = next_buf + 1
    /\ pc' = "bind_a"
    /\ UNCHANGED <<aborted_in, gpu, host, cbs, oob, fixed>>

\* A mutant of BindInput: the two input slots are swapped.
BindInputSwapped(slot, data) ==
    /\ bufs' = bufs @@ (next_buf :> gpu_buf(data, FALSE, Cur))
    /\ cbs' = Encode([op |-> "set_buffer", slot |-> 1 - slot, buf |-> next_buf])
    /\ next_buf' = next_buf + 1

\* A mutant of BindInput: the host keeps the input buffer's handle.
BindInputKept(slot, data) ==
    /\ bufs' = bufs @@ (next_buf :> gpu_buf(data, TRUE, Cur))
    /\ cbs' = Encode([op |-> "set_buffer", slot |-> slot, buf |-> next_buf])
    /\ next_buf' = next_buf + 1

\* gpu_mem: enc.set_buffer(slot, Some(&gpu_buf(&dev, data)), 0);
\* the buffer is a temporary of the statement: its handle is dropped when the
\* statement ends, and the command buffer's reference keeps the buffer alive.
BindInput(slot, data) ==
    /\ bufs' = bufs @@ (next_buf :> gpu_buf(data, FALSE, Cur))
    /\ cbs' = Encode([op |-> "set_buffer", slot |-> slot, buf |-> next_buf])
    /\ next_buf' = next_buf + 1

\* gpu_mem: enc.set_buffer(0, Some(&gpu_buf(&dev, a)), 0);
BindA ==
    /\ pc = "bind_a"
    /\ BindInput(0, a)
    /\ pc' = "bind_b"
    /\ UNCHANGED <<aborted_in, gpu, host, buf_result, oob, fixed>>

\* gpu_mem: enc.set_buffer(1, Some(&gpu_buf(&dev, b)), 0);
BindB ==
    /\ pc = "bind_b"
    /\ BindInput(1, b)
    /\ pc' = "bind_result"
    /\ UNCHANGED <<aborted_in, gpu, host, buf_result, oob, fixed>>

\* gpu_mem: enc.set_buffer(2, Some(&buf_result), 0); buf_result
BindResult ==
    /\ pc = "bind_result"
    /\ bufs' = [bufs EXCEPT ![buf_result].retained = Cur]
    /\ cbs' = Encode([op |-> "set_buffer", slot |-> 2, buf |-> buf_result])
    /\ pc' = "set_pipeline"
    /\ UNCHANGED <<aborted_in, gpu, host, next_buf, buf_result, oob, fixed>>

\* gpu_dot: encoder.set_compute_pipeline_state(&gpu.state);
SetPipeline ==
    /\ pc = "set_pipeline"
    /\ cbs' = Encode([op |-> "set_compute_pipeline_state"])
    /\ pc' = "dispatch"
    /\ UNCHANGED <<aborted_in, gpu, host, bufs, next_buf, buf_result, oob,
                   fixed>>

\* gpu_run: encoder.dispatch_thread_groups(size_1d(threadgroups),
\*                                         size_1d(threads_per_threadgroup));
\* with len = a.len()
DispatchThreadGroups ==
    /\ pc = "dispatch"
    /\ cbs' = Encode([op |-> "dispatch_thread_groups",
                      groups |-> size_1d(Bits2Nat(Threadgroups(Nat2Bits(VLen(a))))),
                      threads |-> size_1d(ThreadsPerThreadgroup)])
    /\ pc' = "end_encoding"
    /\ UNCHANGED <<aborted_in, gpu, host, bufs, next_buf, buf_result, oob,
                   fixed>>

\* gpu_run: encoder.end_encoding();
EndEncoding ==
    /\ pc = "end_encoding"
    /\ cbs' = [cbs EXCEPT ![Cur].encoder = "ended"]
    /\ pc' = "commit"
    /\ UNCHANGED <<aborted_in, gpu, host, bufs, next_buf, buf_result, oob,
                   fixed>>

\* gpu_run: command_buffer.commit();
Commit ==
    /\ pc = "commit"
    /\ cbs' = [cbs EXCEPT ![Cur].status = "committed"]
    /\ pc' = "wait_until_completed"
    /\ UNCHANGED <<aborted_in, gpu, host, bufs, next_buf, buf_result, oob,
                   fixed>>

\* ------------------------------------------------------------------------
\* The device
\* ------------------------------------------------------------------------
\* The position of the dispatch command in a command buffer's commands.
DispatchAt(cmds) ==
    CHOOSE i \in 1..Len(cmds) : cmds[i].op = "dispatch_thread_groups"

\* The buffer bound to argument slot `slot` when the dispatch was recorded.
BoundAt(cmds, slot) ==
    LET sets == {i \in 1..(DispatchAt(cmds) - 1) :
                    cmds[i].op = "set_buffer" /\ cmds[i].slot = slot}
        last == CHOOSE i \in sets : \A j \in sets : j <= i
    IN cmds[last].buf

\* Values a stray store may leave behind.
StrayVals == {F32MinusOne, F32Zero, F32One}

\* What the device may do with a dispatch that accesses the out-of-bounds
\* indices `stray`.  It may complete it, or report an execution fault, with
\* the in-bounds products written or not.  An out-of-bounds access is
\* undefined behaviour: besides a fault, a stray store may land in another
\* allocation, here element 0 of the first input before invocation 0 reads it.
DeviceOutcomes(stray) ==
    {[status |-> "completed", written |-> TRUE, clobber |-> <<>>],
     [status |-> "error", written |-> TRUE, clobber |-> <<>>],
     [status |-> "error", written |-> FALSE, clobber |-> <<>>]}
    \cup IF stray = {} THEN {}
         ELSE {[status |-> "completed", written |-> TRUE, clobber |-> <<v>>] :
                  v \in StrayVals}

\* The command buffer's references are dropped when it retires; a buffer
\* nobody references any more is deallocated.
Release(bs, c) ==
    LET rel  == [i \in DOMAIN bs |->
                    IF bs[i].retained = c THEN [bs[i] EXCEPT !.retained = 0]
                    ELSE bs[i]]
        live == {i \in DOMAIN rel : rel[i].held \/ rel[i].retained # 0}
    IN [i \in live |-> rel[i]]

\* The device runs the committed command buffer c and retires it.
DeviceExecute(c) ==
    /\ cbs[c].status = "committed"
    /\ LET cmds == cbs[c].cmds
           d    == cmds[DispatchAt(cmds)]
           grid == GridSize(d.groups, d.threads)
           ia   == BoundAt(cmds, 0)
           ib   == BoundAt(cmds, 1)
           io   == BoundAt(cmds, 2)
           stray == KernelStray(grid, VLen(bufs[io].data))
       IN \E o \in DeviceOutcomes(stray) :
            LET da  == IF o.clobber = <<>> THEN bufs[ia].data
                       ELSE <<Run(o.clobber[1], 1)>> \o VDrop(bufs[ia].data, 1)
                out == IF o.written
                         THEN KernelOut(da, bufs[ib].data, bufs[io].data, grid)
                         ELSE bufs[io].data
            IN /\ oob' = stray
               /\ bufs' = Release([bufs EXCEPT ![io].data = out], c)
               /\ cbs' = [cbs EXCEPT ![c].status = o.status]
    /\ UNCHANGED <<pc, aborted_in, gpu, host, next_buf, buf_result, fixed>>

\* ------------------------------------------------------------------------
\* gpu_run's wait, gpu_result, and the rest of the loop body
\* ------------------------------------------------------------------------
\* A mutant of Retired: the wait returns at once.
RetiredAlways(status) == TRUE

\* wait_until_completed returns once the command buffer has retired:
\* completed, or ended with an error.
Retired(status) == status \in {"completed", "error"}

\* gpu_run: command_buffer.wait_until_completed();
\* gpu_run returns nothing and reads no status: gpu_dot goes on to gpu_result.
WaitUntilCompleted ==
    /\ pc = "wait_until_completed"
    /\ Retired(cbs[Cur].status)
    /\ pc' = "gpu_result"
    /\ UNCHANGED <<aborted_in, gpu, host, device, fixed>>

\* gpu_dot: gpu_result(buf_result, a.len()); the handle moves into gpu_result
\* and is dropped when it returns.
GpuResult ==
    /\ pc = "gpu_result"
    /\ result' = <<gpu_result(bufs[buf_result].data, VLen(a))>>
    /\ bufs' = Release([bufs EXCEPT ![buf_result].held = FALSE], 0)
    /\ buf_result' = 0
    /\ pc' = "cpu_dot"
    /\ UNCHANGED <<aborted_in, gpu, a, b, iter, printed, cpu_result, cbs,
                   next_buf, oob, fixed>>

\* let cpu_result = cpu_dot(&a, &b);
CpuDot ==
    /\ pc = "cpu_dot"
    /\ cpu_result' = <<cpu_dot(a, b)>>
    /\ pc' = "assert_eq"
    /\ UNCHANGED <<aborted_in, gpu, a, b, iter, printed, result, device, fixed>>

\* A mutant of AssertHolds: the assertion is compiled out.
AssertSkipped(left, right) == TRUE

\* assert_eq!(left, right) passes iff left == right.
AssertHolds(left, right) == F32Eq(left, right)

\* assert_eq!(result, cpu_result);
AssertEq ==
    /\ pc = "assert_eq"
    /\ IF AssertHolds(result[1], cpu_result[1])
         THEN /\ pc' = "println"
              /\ UNCHANGED aborted_in
         ELSE Panic("main")
    /\ UNCHANGED <<gpu, host, device, fixed>>

\* The seven println! lines; the loop body ends, its locals are dropped, and
\* the loop starts over.
PrintLines ==
    /\ pc = "println"
    /\ printed' = printed + 1
    /\ a' = <<>>
    /\ b' = <<>>
    /\ result' = <<>>
    /\ cpu_result' = <<>>
    /\ pc' = "generate"
    /\ UNCHANGED <<aborted_in, gpu, iter, device, fixed>>

Next ==
    \/ SystemDefault
    \/ NewCommandQueue
    \/ NewLibrary
    \/ GetFunction
    \/ NewPipelineState
    \/ Generate
    \/ NewCommandBuffer
    \/ NewEncoder
    \/ AllocResult
    \/ BindA
    \/ BindB
    \/ BindResult
    \/ SetPipeline
    \/ DispatchThreadGroups
    \/ EndEncoding
    \/ Commit
    \/ \E c \in 1..Len(cbs) : DeviceExecute(c)
    \/ WaitUntilCompleted
    \/ GpuResult
    \/ CpuDot
    \/ AssertEq
    \/ PrintLines

Spec == Init /\ [][Next]_vars

\* ------------------------------------------------------------------------
\* gpu_dot and cpu_dot called on their own, with slices of any length
\* ------------------------------------------------------------------------
\* The element values of the slices: values whose products and sums are
\* exact in f32.
CallVals == <<F32MinusOne, F32Zero, F32One>>

\* A slice of length n: v[i] = CallVals[(i * stride + off) mod 3].
Pattern(stride, off, n) ==
    [i \in 1..n |-> Run(CallVals[((i * stride + off) % 3) + 1], 1)]

Slices(n) == {Pattern(st, off, n) : st \in 0..MaxStride, off \in 0..2}

\* The lengths of the slices.
Sizes == (1..MaxSmall) \cup ((ThreadsPerThreadgroup - 1)..MaxLen)

\* The caller holds the GPU that gpu_setup returned.
InitCall ==
    /\ pc = "call"
    /\ aborted_in = ""
    /\ env = [device |-> TRUE, library |-> TRUE, function |-> TRUE,
              pipeline |-> TRUE]
    /\ gpu = [dev |-> TRUE, cmds |-> TRUE, state |-> TRUE]
    /\ a = <<>>
    /\ b = <<>>
    /\ iter = 0
    /\ printed = 0
    /\ cbs = <<>>
    /\ bufs = <<>>
    /\ next_buf = 1
    /\ buf_result = 0
    /\ result = <<>>
    /\ cpu_result = <<>>
    /\ oob = {}
    /\ run_len = <<>>
    /\ run_groups = <<>>

\* gpu_dot(a, b, gpu) entered with two slices of equal length; the caller
\* then calls cpu_dot(a, b), as main does.
CallGpuDot ==
    /\ pc = "call"
    /\ \E n \in Sizes : a' \in Slices(n) /\ b' \in Slices(n)
    /\ iter' = iter + 1
    /\ pc' = "new_command_buffer"
    /\ UNCHANGED <<aborted_in, gpu, printed, result, cpu_result, device,
                   fixed>>

NextCall ==
    \/ CallGpuDot
    \/ NewCommandBuffer
    \/ NewEncoder
    \/ AllocResult
    \/ BindA
    \/ BindB
    \/ BindResult
    \/ SetPipeline
    \/ DispatchThreadGroups
    \/ EndEncoding
    \/ Commit
    \/ \E c \in 1..Len(cbs) : DeviceExecute(c)
    \/ WaitUntilCompleted
    \/ GpuResult
    \/ CpuDot

SpecCall == InitCall /\ [][NextCall]_vars

\* ------------------------------------------------------------------------
\* gpu_run's dispatch size on its own, over the range of usize
\* ------------------------------------------------------------------------
\* The lengths gpu_run is called with: small ones, and the neighbourhoods of
\* the powers of two from 2^52 (below the f64 significand) to 2^64.
RunLens ==
    {Nat2Bits(n) : n \in 1..MaxRunLen}
    \cup {Pow2Plus(e, d) : e \in (F64Bits - 1)..(UsizeBits - 1), d \in 0..MaxOff}
    \cup {Pow2Minus(e, d) : e \in F64Bits..UsizeBits, d \in 1..MaxOff}

\* The invocations of a dispatch of `groups` groups: groups * 64.
GridOf(groups) == ShiftLeft(groups, Log2(ThreadsPerThreadgroup))

InitRun ==
    /\ pc = "gpu_run"
    /\ aborted_in = ""
    /\ env = [device |-> TRUE, library |-> TRUE, function |-> TRUE,
              pipeline |-> TRUE]
    /\ gpu = NoGpu
    /\ a = <<>>
    /\ b = <<>>
    /\ iter = 0
    /\ printed = 0
    /\ cbs = <<>>
    /\ bufs = <<>>
    /\ next_buf = 1
    /\ buf_result = 0
    /\ result = <<>>
    /\ cpu_result = <<>>
    /\ oob = {}
    /\ run_len \in RunLens
    /\ run_groups = <<>>

\* gpu_run(command_buffer, encoder, len): the threadgroups it dispatches.
GpuRunDispatch ==
    /\ pc = "gpu_run"
    /\ run_groups' = <<Threadgroups(run_len)>>
    /\ pc' = "dispatched"
    /\ UNCHANGED <<aborted_in, env, gpu, host, device, run_len>>

NextRun == GpuRunDispatch

SpecRun == InitRun /\ [][NextRun]_vars

\* ------------------------------------------------------------------------
\* Properties
\* ------------------------------------------------------------------------
SetupPcs == {"system_default", "new_command_queue", "new_library",
             "get_function", "new_pipeline_state"}

\* From the creation of the output buffer to the return of gpu_run.
HoldingPcs == {"bind_a", "bind_b", "bind_result", "set_pipeline", "dispatch",
               "end_encoding", "commit", "wait_until_completed", "gpu_result"}

\* The loop body before its println! lines.
BodyPcs == {"new_command_buffer", "new_encoder", "alloc_result"}
           \cup HoldingPcs \cup {"cpu_dot", "assert_eq"}

InFlight == {c \in 1..Len(cbs) : cbs[c].status = "committed"}

Dispatched == pc = "dispatched" /\ run_groups # <<>>

\* 2^53: up to it every usize is an f64.
F64Exact == Pow2Plus(F64Bits, 0)

Mod64(x) == Bits2Nat(LowBits(x, Log2(ThreadsPerThreadgroup)))

\* The group-count contract of C2 for length n and group count g.
Covers(n, g) ==
    /\ LessEq(n, GridOf(g))
    /\ g # <<>>
    /\ Less(GridOf(Dec(g)), n)
    /\ (n = <<1>> => g = <<1>>)
    /\ (Mod64(n) = 0 => GridOf(g) = n)

\* The GPU and the CPU result are there and are equal (==).
SameResult ==
    /\ result # <<>>
    /\ cpu_result # <<>>
    /\ (result[1] = cpu_result[1] \/ (result[1].m = 0 /\ cpu_result[1].m = 0))

\* C1 (as stated): when gpu_dot and cpu_dot have both returned, for slices of
\* values whose products and sums are exact, the two results are the same
\* value, and it is 0 when A is all zeros.
C1_Original ==
    (result # <<>> /\ cpu_result # <<>>) =>
        /\ SameResult
        /\ ((\A i \in 1..Len(a) : a[i].v.m = 0) => result[1].m = 0)

\* C2 (as stated): for every N >= 1 the dispatched group count satisfies
\* groups*64 >= N and (groups-1)*64 < N, is 1 for N = 1, and dispatches
\* exactly N invocations when 64 divides N.  gpu_run takes the count from
\* `len as f64`, which rounds a len above 2^53 to a 53-bit significand: at
\* len = 2^53 + 1 the count is 2^47 and the grid is one short of len.
C2_Original == Dispatched => Covers(run_len, run_groups[1])


\* C3 (as stated): for N = 64k+1 exactly one dispatched invocation has a
\* global index >= N.
C3_Original ==
    (Dispatched /\ Mod64(run_len) = 1) =>
        Diff(GridOf(run_groups[1]), run_len) = 1

\* C3 (amended): for N = 64k+1 <= 2^53 exactly 63 dispatched invocations have
\* a global index >= N.
C3_Padding ==
    (Dispatched /\ Mod64(run_len) = 1 /\ LessEq(run_len, F64Exact)) =>
        Diff(GridOf(run_groups[1]), run_len) = ThreadsPerThreadgroup - 1

C3_Witness ==
    Dispatched /\ run_len = Nat2Bits(ThreadsPerThreadgroup + 1)
               /\ run_groups[1] = <<0, 1>>

\* C4 (as stated): no invocation of a dispatch accesses bufA, bufB or bufOut
\* at an index >= N.
C4_Original == oob = {}

\* C5: gpu_result reads the output buffer only once the device has retired
\* the committed command buffer, at most one command buffer is in flight, and
\* a command buffer exists only when all earlier ones have retired.
C5_Serialized ==
    /\ Cardinality(InFlight) <= 1
    /\ \A c \in 1..(Len(cbs) - 1) : cbs[c].status \in {"completed", "error"}
    /\ (pc = "gpu_result" \/ result # <<>>) =>
           cbs[Cur].status \in {"completed", "error"}

C5_Witness ==
    /\ pc = "gpu_result"
    /\ Len(cbs) = 2
    /\ cbs[2].status = "completed"

\* C6 (as stated): once the device has reported an execution fault for the
\* dispatched command buffer, the process stops: the output buffer is not
\* reduced into a result and the host goes no further than the wait.
C6_Original ==
    (Len(cbs) > 0 /\ cbs[Cur].status = "error") =>
        /\ result = <<>>
        /\ pc \in {"wait_until_completed", "gpu_result", "aborted"}

\* C7: when the platform has no device, or the kernel does not compile, or
\* the function or the pipeline state cannot be built, the process never
\* leaves gpu_setup other than by a panic raised inside it, and no device
\* buffer, command buffer or iteration exists.
C7_SetupFatal ==
    (~env.device \/ ~env.library \/ ~env.function \/ ~env.pipeline) =>
        /\ pc \in SetupPcs \cup {"aborted"}
        /\ pc = "aborted" => aborted_in \in {"gpu_setup", "gpu_state", "gpu_fn"}
        /\ (pc = "aborted" /\ ~env.device) => gpu = NoGpu
        /\ gpu.state = FALSE
        /\ bufs = <<>> /\ next_buf = 1 /\ buf_result = 0
        /\ cbs = <<>>
        /\ iter = 0 /\ printed = 0

C7_Witness ==
    /\ pc = "aborted"
    /\ aborted_in = "gpu_fn"
    /\ env.device /\ ~env.library
    /\ bufs = <<>> /\ cbs = <<>>

\* The loop's bookkeeping: the lines of an iteration are printed only when
\* its results are equal; a panic in the loop is the assertion's, in an
\* iteration whose results differ and whose lines were not printed.
C8_LoopInv ==
    /\ pc \in BodyPcs => printed = iter - 1
    /\ pc = "println" => (SameResult /\ printed = iter - 1)
    /\ pc = "generate" => printed = iter
    /\ (pc = "aborted" /\ iter > 0) =>
           /\ aborted_in = "main"
           /\ result # <<>> /\ cpu_result # <<>> /\ ~SameResult
           /\ printed = iter - 1
    /\ (pc = "generate" /\ iter < MaxIter) => ENABLED Generate

\* The steps out of assert_eq!, println!, the loop head and a panic.
C8_LoopStep ==
    /\ (pc = "assert_eq" /\ SameResult) =>
           (pc' = "println" /\ printed' = printed)
    /\ (pc = "assert_eq" /\ ~SameResult) =>
           (pc' = "aborted" /\ printed' = printed /\ iter' = iter)
    /\ pc = "println" =>
           (pc' = "generate" /\ printed' = printed + 1 /\ iter' = iter)
    /\ pc = "generate" => (pc' = "new_command_buffer" /\ iter' = iter + 1)
    /\ pc = "aborted" => UNCHANGED vars

\* C8: the loop leaves an iteration only by printing and starting over (the
\* GPU and CPU results are equal) or by the assertion's panic (they differ):
\* in an iteration with equal results the lines are printed and a further
\* iteration starts; in the first iteration where they differ the assertion
\* stops the process, nothing is printed for it and nothing runs after it.
C8_Loop == []C8_LoopInv /\ [][C8_LoopStep]_vars

C8_Witness ==
    /\ pc = "aborted"
    /\ aborted_in = "main"
    /\ iter = 2
    /\ printed = 1

\* The commands of a command buffer are a prefix of `order`.
RecordedPrefix(cmds, order) ==
    /\ Len(cmds) <= Len(order)
    /\ \A i \in 1..Len(cmds) : cmds[i].op = order[i]

\* Command i of the command buffer binds argument slot `slot`.
BindsSlot(cmds, i, slot) == Len(cmds) >= i => cmds[i].slot = slot

\* How far the host has got with a command buffer, by its state.
Stage(cb) ==
    /\ cb.encoder = "none" => cb.cmds = <<>>
    /\ cb.encoder = "ended" => Len(cb.cmds) = 5
    /\ cb.status # "created" => cb.encoder = "ended"

\* C9 (as stated): the pipeline state is bound first, then the three buffers,
\* then the dispatch.
C9_Original ==
    \A c \in 1..Len(cbs) :
        RecordedPrefix(cbs[c].cmds,
            <<"set_compute_pipeline_state", "set_buffer", "set_buffer",
              "set_buffer", "dispatch_thread_groups">>)

\* C9 (amended): each gpu_dot call records into one command buffer and one
\* encoder, in this order: bufA, bufB and bufOut are bound to argument slots
\* 0, 1 and 2, then the pipeline state is bound, then the one-dimensional
\* dispatch is issued, then the encoding pass is closed, then the command
\* buffer is committed, then the caller waits for it to retire.
C9_Order ==
    /\ pc \in BodyPcs \ {"new_command_buffer"} => Len(cbs) = iter
    /\ \A c \in 1..Len(cbs) :
        /\ RecordedPrefix(cbs[c].cmds,
               <<"set_buffer", "set_buffer", "set_buffer",
                 "set_compute_pipeline_state", "dispatch_thread_groups">>)
        /\ BindsSlot(cbs[c].cmds, 1, 0)
        /\ BindsSlot(cbs[c].cmds, 2, 1)
        /\ BindsSlot(cbs[c].cmds, 3, 2)
        /\ Len(cbs[c].cmds) = 5 =>
               /\ cbs[c].cmds[5].groups.height = 1
               /\ cbs[c].cmds[5].groups.depth = 1
               /\ cbs[c].cmds[5].threads = size_1d(ThreadsPerThreadgroup)
        /\ Stage(cbs[c])
    /\ pc \in HoldingPcs \ {"bind_a", "bind_b", "bind_result"} =>
           /\ cbs[Cur].cmds[3].buf = buf_result
           /\ cbs[Cur].status = "created" =>
                  /\ bufs[cbs[Cur].cmds[1].buf].data = a
                  /\ bufs[cbs[Cur].cmds[2].buf].data = b
    /\ pc = "wait_until_completed" => cbs[Cur].status # "created"
    /\ pc \in {"gpu_result", "cpu_dot", "assert_eq", "println"} =>
           cbs[Cur].status \in {"completed", "error"}

C9_Witness ==
    /\ pc = "gpu_result"
    /\ Len(cbs[Cur].cmds) = 5
    /\ cbs[Cur].cmds[4].op = "set_compute_pipeline_state"

\* C10 (as stated): none of the three buffer handles is released before
\* gpu_result has summed the output.
C10_Original ==
    \A id \in DOMAIN bufs : (bufs[id].born = iter /\ ~bufs[id].held) =>
        result # <<>>

\* C10 (amended): each gpu_dot call allocates three fresh device buffers; the
\* host holds the handle of the output buffer alone until gpu_result has
\* summed it, the handle of each input buffer being released as soon as the
\* buffer is bound to its slot, from when on the command buffer's reference
\* keeps the buffer alive until the dispatch has retired; all three are
\* released before the next iteration allocates, and no buffer is reused
\* across iterations.
C10_Buffers ==
    /\ \A id \in DOMAIN bufs :
        /\ bufs[id].born = iter
        /\ id >= next_buf - 3
        /\ bufs[id].held <=> id = buf_result
        /\ ~bufs[id].held =>
               /\ bufs[id].retained = Cur
               /\ cbs[Cur].status \in {"created", "committed"}
    /\ pc \in HoldingPcs =>
           /\ buf_result \in DOMAIN bufs
           /\ bufs[buf_result].held
           /\ result = <<>>
    /\ pc \in {"set_pipeline", "dispatch", "end_encoding", "commit"} =>
           /\ Cardinality(DOMAIN bufs) = 3
           /\ next_buf = 3 * iter + 1
    /\ pc \notin HoldingPcs => (bufs = <<>> /\ buf_result = 0)

C10_Witness ==
    /\ pc = "wait_until_completed"
    /\ cbs[Cur].status = "committed"
    /\ Cardinality({id \in DOMAIN bufs : ~bufs[id].held}) = 2
    /\ iter = 2

====
